---- MODULE Spec2Model ----
(***************************************************************************)
(* A model of the request pipeline of the universal fetch client:          *)
(* createFetchClient / execute, handleRedirect, handleError, the default   *)
(* response shaper and the header utilities.                               *)
(*                                                                         *)
(* One call runs at a time through the pipeline; each action is the code   *)
(* between two suspension points (await) of execute and its callees.       *)
(***************************************************************************)
EXTENDS Integers, Sequences, FiniteSets, TLC

VARIABLES
    config,       \* the FetchClientConfig captured by createFetchClient
    isServerEnv,  \* what isServer() answers in this process
    transport,    \* which responses the transport behind fetch gives
    pc,           \* position of the current call in execute
    call,         \* arguments of the current call: method, safe, path, options
    ctx,          \* the RequestContext of the current call
    fetchCalls,   \* every fetch() made by the current call: arguments, response
    res,          \* the Response the transport resolved with
    parsed,       \* result of parseResponse
    shaped,       \* result of shaper.error in handleError
    log,          \* hooks and callbacks invoked by the current call, in order
    result,       \* how the current call settled
    earlier,      \* the header names dispatched by the earlier calls on the client
    suspended,    \* the locals of a second call, waiting at one of its awaits
    lazy          \* the lazy proxy: apiInstance, the clients created, its callers

vars ==
    <<config, isServerEnv, transport, pc, call, ctx, fetchCalls, res, parsed, shaped, log, result,
      earlier, suspended, lazy>>

-----------------------------------------------------------------------------
(* JavaScript values, as far as the code looks at them.                    *)

Undefined == [t |-> "undefined", v |-> "undefined"]
Null == [t |-> "null", v |-> "null"]
Str(s) == [t |-> "string", v |-> s]
Num(s) == [t |-> "number", v |-> s]
Bool(s) == [t |-> "boolean", v |-> s]
Obj(s) == [t |-> "object", v |-> s]

\* ToBoolean, as applied by `!x`, `x && y` and `x ? a : b`
Truthy(x) ==
    CASE x.t = "undefined" -> FALSE
      [] x.t = "null" -> FALSE
      [] x.t = "boolean" -> x.v = "true"
      [] x.t = "number" -> x.v \notin {"0", "-0", "NaN"}
      [] x.t = "string" -> x.v # ""
      [] OTHER -> TRUE

\* JSON.stringify of a value: strings are quoted, the rest print as written
JSONStringify(x) ==
    CASE x.t = "string" -> "\"" \o x.v \o "\""
      [] OTHER -> x.v

None == [none |-> TRUE]

-----------------------------------------------------------------------------
(* Headers: a map from lower-cased names to values.                        *)

\* the lower-case letter of each upper-case ASCII letter
LowerOf ==
    [A |-> "a", B |-> "b", C |-> "c", D |-> "d", E |-> "e", F |-> "f", G |-> "g",
     H |-> "h", I |-> "i", J |-> "j", K |-> "k", L |-> "l", M |-> "m", N |-> "n",
     O |-> "o", P |-> "p", Q |-> "q", R |-> "r", S |-> "s", T |-> "t", U |-> "u",
     V |-> "v", W |-> "w", X |-> "x", Y |-> "y", Z |-> "z"]

UpperCase == DOMAIN LowerOf

LowerChar(c) == IF c \in UpperCase THEN LowerOf[c] ELSE c

RECURSIVE ToLower(_)
ToLower(s) ==
    IF s = "" THEN ""
    ELSE LowerChar(SubSeq(s, 1, 1)) \o ToLower(SubSeq(s, 2, Len(s)))

EmptyHeaders == [n \in {} |-> ""]

\* Headers.prototype.has / get: names are matched case-insensitively
HeadersHas(h, name) == ToLower(name) \in DOMAIN h
HeadersGet(h, name) ==
    IF HeadersHas(h, name) THEN Str(h[ToLower(name)]) ELSE Null

\* Headers.prototype.set: replaces the value under the lower-cased name
HeadersSet(h, name, value) ==
    [n \in DOMAIN h \cup {ToLower(name)} |->
        IF n = ToLower(name) THEN value ELSE h[n]]

\* Headers.prototype.append: combines with a value already there
HeadersAppend(h, name, value) ==
    IF HeadersHas(h, name)
    THEN HeadersSet(h, name, h[ToLower(name)] \o ", " \o value)
    ELSE HeadersSet(h, name, value)

\* new Headers(init): init is a list of <<name, value>> entries (the entries
\* of a record, or an array of pairs); an undefined init is the empty list
RECURSIVE NewHeaders(_)
NewHeaders(init) ==
    IF init = <<>> THEN EmptyHeaders
    ELSE LET n == Len(init)
         IN HeadersAppend(NewHeaders(SubSeq(init, 1, n - 1)), init[n][1], init[n][2])

\* the names of a Headers object in forEach order (sorted; any fixed order
\* gives the same map, the names being distinct)
RECURSIVE SetToSeq(_)
SetToSeq(S) ==
    IF S = {} THEN <<>>
    ELSE LET x == CHOOSE y \in S : TRUE IN <<x>> \o SetToSeq(S \ {x})

RECURSIVE CopyInto(_, _, _)
CopyInto(h, src, names) ==
    IF names = <<>> THEN h
    ELSE CopyInto(HeadersSet(h, Head(names), src[Head(names)]), src, Tail(names))

\* mergeHeaders with the loop running from the last input to the first, so
\* that the earlier source overwrites the later one
RECURSIVE mergeHeadersFirstWins(_)
mergeHeadersFirstWins(inputs) ==
    IF inputs = <<>> THEN EmptyHeaders
    ELSE LET h == mergeHeadersFirstWins(Tail(inputs))
             src == NewHeaders(Head(inputs))
         IN CopyInto(h, src, SetToSeq(DOMAIN src))

\* mergeHeaders(...inputs)
RECURSIVE mergeHeaders(_)
mergeHeaders(inputs) ==
    IF inputs = <<>> THEN EmptyHeaders
    ELSE LET n == Len(inputs)
             h == mergeHeaders(SubSeq(inputs, 1, n - 1))
             src == NewHeaders(inputs[n])
         IN CopyInto(h, src, SetToSeq(DOMAIN src))

-----------------------------------------------------------------------------
(* URL construction.                                                       *)

StartsWithNoCase(s, prefix) ==
    /\ Len(s) >= Len(prefix)
    /\ ToLower(SubSeq(s, 1, Len(prefix))) = prefix

EndsWith(s, suffix) ==
    /\ Len(s) >= Len(suffix)
    /\ SubSeq(s, Len(s) - Len(suffix) + 1, Len(s)) = suffix

\* /^https?:\/\//i.test(path)
isAbsolute(path) ==
    StartsWithNoCase(path, "http://") \/ StartsWithNoCase(path, "https://")

\* buildUrl without its guard on a missing baseUrl
RequiresBaseUrlNever(baseUrl, path) == FALSE

\* the explicit throw of buildUrl: a relative path and a falsy baseUrl
RequiresBaseUrl(baseUrl, path) == ~isAbsolute(path) /\ ~Truthy(baseUrl)

\* new URL(normalizedPath, base) throws a TypeError for a base that is no
\* absolute URL; the bases of this model start with http(s):// or have no scheme
NewUrlThrows(baseUrl, path) ==
    ~isAbsolute(path) /\ Truthy(baseUrl) /\ ~isAbsolute(baseUrl.v)

\* the first position at or after i where the one-character string c occurs
\* in s, Len(s) + 1 when there is none
RECURSIVE FindFrom(_, _, _)
FindFrom(s, c, i) ==
    IF i > Len(s) THEN Len(s) + 1
    ELSE IF SubSeq(s, i, i) = c THEN i
    ELSE FindFrom(s, c, i + 1)

Min2(a, b) == IF a < b THEN a ELSE b

\* the pieces of s between the occurrences of the one-character string c
RECURSIVE SplitOn(_, _)
SplitOn(s, c) ==
    LET i == FindFrom(s, c, 1)
    IN IF i > Len(s) THEN <<s>>
       ELSE <<SubSeq(s, 1, i - 1)>> \o SplitOn(SubSeq(s, i + 1, Len(s)), c)

\* a query string as the list of its <<name, value>> pairs
RECURSIVE PairsOf(_)
PairsOf(pieces) ==
    IF pieces = <<>> THEN <<>>
    ELSE LET piece == Head(pieces)
             eq == FindFrom(piece, "=", 1)
         IN IF piece = "" THEN PairsOf(Tail(pieces))
            ELSE <<<<SubSeq(piece, 1, eq - 1), SubSeq(piece, eq + 1, Len(piece))>>>>
                     \o PairsOf(Tail(pieces))

ParseQuery(q) == IF q = "" THEN <<>> ELSE PairsOf(SplitOn(q, "&"))

\* a path reference "path?query" split at the first question mark
PathOf(ref) == SubSeq(ref, 1, FindFrom(ref, "?", 1) - 1)
QueryOf(ref) == SubSeq(ref, FindFrom(ref, "?", 1) + 1, Len(ref))

\* new URL(s) for an http(s) URL "scheme://host/path?query": the parser lowers
\* the scheme and the host and gives an empty path the value "/".  The URLs
\* of this model have no port, credentials, fragment, dot segment or escape.
NewUrl(s) ==
    LET colon == FindFrom(s, ":", 1)
        rest == SubSeq(s, colon + 3, Len(s))
        hostEnd == Min2(FindFrom(rest, "/", 1), FindFrom(rest, "?", 1))
        ref == SubSeq(rest, hostEnd, Len(rest))
    IN [scheme |-> ToLower(SubSeq(s, 1, colon - 1)),
        host |-> ToLower(SubSeq(rest, 1, hostEnd - 1)),
        path |-> IF PathOf(ref) = "" THEN "/" ELSE PathOf(ref),
        query |-> ParseQuery(QueryOf(ref))]

\* new URL(ref, base) for a reference without a scheme: one that starts with
\* a slash replaces the whole path of the base, any other replaces what
\* follows the last slash of the path of the base
NewUrlWithBase(ref, base) ==
    LET b == NewUrl(base)
        dir == IF EndsWith(b.path, "/") THEN b.path
               ELSE LET pieces == SplitOn(b.path, "/")
                    IN SubSeq(b.path, 1, Len(b.path) - Len(pieces[Len(pieces)]))
    IN IF ref = "" THEN b
       ELSE [scheme |-> b.scheme,
             host |-> b.host,
             path |-> IF StartsWithNoCase(ref, "/") THEN PathOf(ref) ELSE dir \o PathOf(ref),
             query |-> ParseQuery(QueryOf(ref))]

\* String(v)
ToStr(x) == IF x.t = "object" THEN "[object Object]" ELSE x.v

\* the application/x-www-form-urlencoded serializer, on the characters of
\* this model: a space becomes "+", "&" and "=" are percent-encoded
RECURSIVE FormEncode(_)
FormEncode(s) ==
    IF s = "" THEN ""
    ELSE LET c == SubSeq(s, 1, 1)
             e == CASE c = " " -> "+"
                    [] c = "&" -> "%26"
                    [] c = "=" -> "%3D"
                    [] OTHER -> c
         IN e \o FormEncode(SubSeq(s, 2, Len(s)))

\* URLSearchParams.prototype.set: the first pair of that name takes the value
\* and the others of that name are removed; without one the pair is appended
SearchParamsSet(query, name, value) ==
    LET hits == {i \in 1..Len(query) : query[i][1] = name}
        first == CHOOSE i \in hits : \A j \in hits : i <= j
        Keep(i) == query[i][1] # name \/ i = first
        kept == SelectSeq([i \in 1..Len(query) |-> <<i, query[i]>>], LAMBDA e : Keep(e[1]))
    IN IF hits = {} THEN Append(query, <<name, value>>)
       ELSE [i \in 1..Len(kept) |->
                IF kept[i][1] = first THEN <<name, value>> ELSE kept[i][2]]

\* the keys that Object.entries lists first, in ascending numeric order,
\* whatever their insertion order: the canonical array indices
ArrayIndex == ("0" :> 0) @@ ("1" :> 1) @@ ("2" :> 2) @@ ("10" :> 10)

RECURSIVE SortedIndexKeys(_)
SortedIndexKeys(keys) ==
    IF keys = {} THEN <<>>
    ELSE LET k == CHOOSE x \in keys : \A y \in keys : ArrayIndex[x] <= ArrayIndex[y]
         IN <<k>> \o SortedIndexKeys(keys \ {k})

\* Object.entries(params): params is the list of the <<key, value>> pairs of
\* the object literal as written (keys distinct)
ObjectEntries(params) ==
    LET ValueOf(k) == (CHOOSE i \in 1..Len(params) : params[i][1] = k)
        indexKeys == {params[i][1] : i \in 1..Len(params)} \cap DOMAIN ArrayIndex
        sorted == SortedIndexKeys(indexKeys)
    IN [i \in 1..Len(sorted) |-> params[ValueOf(sorted[i])]]
         \o SelectSeq(params, LAMBDA e : e[1] \notin DOMAIN ArrayIndex)

\* for (const [k, v] of entries) if (v != null) url.searchParams.set(k, String(v))
RECURSIVE SetParams(_, _)
SetParams(query, entries) ==
    IF entries = <<>> THEN query
    ELSE LET k == Head(entries)[1]
             v == Head(entries)[2]
         IN SetParams(IF v \notin {Null, Undefined}
                      THEN SearchParamsSet(query, k, ToStr(v))
                      ELSE query,
                      Tail(entries))

RECURSIVE SerializeQuery(_)
SerializeQuery(query) ==
    IF query = <<>> THEN ""
    ELSE FormEncode(query[1][1]) \o "=" \o FormEncode(query[1][2])
            \o (IF Len(query) > 1 THEN "&" ELSE "") \o SerializeQuery(Tail(query))

\* url.toString()
UrlToString(u) ==
    u.scheme \o "://" \o u.host \o u.path
        \o (IF u.query = <<>> THEN "" ELSE "?" \o SerializeQuery(u.query))

\* buildUrl, on the inputs for which it does not throw
buildUrl(baseUrl, path, params) ==
    LET normalizedPath ==
            IF ~isAbsolute(path) /\ StartsWithNoCase(path, "/")
            THEN SubSeq(path, 2, Len(path)) ELSE path
        url == IF isAbsolute(path) THEN NewUrl(path)
               ELSE NewUrlWithBase(normalizedPath,
                        IF EndsWith(baseUrl.v, "/") THEN baseUrl.v ELSE baseUrl.v \o "/")
    IN UrlToString([url EXCEPT !.query = SetParams(url.query, ObjectEntries(params))])

-----------------------------------------------------------------------------
(* Responses and body parsing.                                             *)

\* JSON.parse on the body texts of this model; None stands for a SyntaxError
JSONParse(text) ==
    CASE text = "{\"id\":1}" -> Obj("{\"id\":1}")
      [] text = "{}" -> Obj("{}")
      [] OTHER -> None

StringIncludes(s, sub) ==
    \E i \in 1..(Len(s) - Len(sub) + 1) : SubSeq(s, i, i + Len(sub) - 1) = sub

\* parseResponse(res): json when the content-type says so, text otherwise;
\* a failing read gives null
parseResponse(r) ==
    LET got == HeadersGet(r.headers, "content-type")
        ct == IF got = Null THEN "" ELSE got.v
    IN IF StringIncludes(ct, "json")
       THEN (IF JSONParse(r.body) = None THEN Null ELSE JSONParse(r.body))
       ELSE Str(r.body)

\* a test for the status 200 alone
ResponseOkOnly200(r) == r.status = 200

\* Response.ok
ResponseOk(r) == r.status >= 200 /\ r.status <= 299

-----------------------------------------------------------------------------
(* Response shapers.                                                       *)

\* createStandardShaper().success
StandardSuccess(data, response) ==
    [ok |-> TRUE, status |-> response.status, data |-> data,
     headers |-> response.headers, raw |-> response]

\* the error operation leaving out the parsed body
StandardErrorWithoutData(ectx) ==
    [ok |-> FALSE, status |-> ectx.status, message |-> ectx.message, raw |-> ectx.raw]

\* createStandardShaper().error
StandardError(ectx) ==
    [ok |-> FALSE, status |-> ectx.status, message |-> ectx.message,
     data |-> ectx.parsedBody, raw |-> ectx.raw]

\* a responseFormat supplied by the caller, as in the safe-method tests
CustomSuccess(data, response) ==
    [ok |-> TRUE, status |-> 200, data |-> data]

CustomError(ectx) ==
    [ok |-> FALSE, status |-> ectx.status, message |-> "Custom Error",
     customField |-> "customValue", raw |-> ectx.raw]

\* the operations of the object createStandardShaper returns, and of the
\* responseFormat of the safe-method tests
StandardShaperOperations == {"success", "error"}
CustomShaperOperations == {"success", "error"}
\* a responseFormat that is a FullResponseShaper: the standard success and
\* error operations and a redirect operation
FullShaperOperations == {"success", "error", "redirect"}

\* const shaper = config.responseFormat ?? createStandardShaper()
ShaperOperations(cfg) ==
    CASE cfg.responseFormat = "custom" -> CustomShaperOperations
      [] cfg.responseFormat = "full" -> FullShaperOperations
      [] OTHER -> StandardShaperOperations

ShaperSuccess(cfg, data, response) ==
    IF cfg.responseFormat = "custom" THEN CustomSuccess(data, response)
    ELSE StandardSuccess(data, response)

ShaperError(cfg, ectx) ==
    IF cfg.responseFormat = "custom" THEN CustomError(ectx)
    ELSE StandardError(ectx)

\* the ErrorContext built by handleError
ErrorContext(r, body, rc) ==
    [status |-> r.status, statusText |-> r.statusText,
     message |-> "HTTP " \o ToString(r.status) \o ": " \o r.statusText,
     parsedBody |-> body, raw |-> r, url |-> rc.url, method |-> rc.method]

\* new Error(shaped.message) without the Object.assign
HttpErrorWithoutFields(sh) == [name |-> "Error", message |-> sh.message]

\* Object.assign(new Error(shaped.message), shaped)
HttpError(sh) ==
    [k \in DOMAIN sh \cup {"name", "message"} |->
        IF k \in DOMAIN sh THEN sh[k]
        ELSE IF k = "name" THEN "Error" ELSE sh.message]

\* errors raised by the code itself
UrlError(path) ==
    [name |-> "Error", message |-> "Relative path \"" \o path \o "\" requires a baseUrl"]
TerminationError(location) ==
    [name |-> "Error",
     message |-> "serverRedirectHandler did not terminate for redirect to " \o location]
\* errors raised by the collaborators
InvalidUrlError == [name |-> "TypeError", message |-> "Invalid URL"]
TransportError == [name |-> "TypeError", message |-> "fetch failed"]
ThrownBy(who) == [name |-> "Error", message |-> "thrown by " \o who]

-----------------------------------------------------------------------------
(* Inputs: client configurations, calls and responses.                     *)

\* most entries a headers source (client-global or per-call) holds
MaxHeaders == 2

\* the callers of the lazy proxy, the calls each makes through it, and the
\* direct calls of initApi
MaxProxyCallers == 2
MaxProxyCalls == 2
MaxInitApiCalls == 2
ProxyCallers == 1..MaxProxyCallers

DefaultConfig ==
    [baseUrl |-> Str("https://api.example.com"),
     headers |-> <<>>,
     serverRedirectHandler |-> FALSE,
     onRedirectSideEffect |-> FALSE,
     credentials |-> Undefined,
     handleClientError |-> FALSE,
     handleServerError |-> FALSE,
     responseFormat |-> "default"]

DefaultOptions ==
    [body |-> Undefined,
     headers |-> <<>>,
     onError |-> FALSE,
     onRedirect |-> FALSE,
     schema |-> FALSE,
     disableAuth |-> Undefined,
     params |-> <<>>,
     rest |-> [cache |-> "default"]]

DefaultCall ==
    [method |-> "GET", safe |-> FALSE, path |-> "/users", options |-> DefaultOptions]

\* the public client: each verb binds the method and the dispatch mode
Verbs ==
    {[method |-> m, safe |-> sf] : m \in {"GET", "POST", "PUT", "PATCH", "DELETE"},
                                   sf \in BOOLEAN}
        \cup {[method |-> "OPTIONS", safe |-> FALSE]}

\* the redirect hooks of a client and of a call, in both environments and modes
RedirectScenarios ==
    {[env |-> e,
      transport |-> "any",
      config |-> [DefaultConfig EXCEPT !.serverRedirectHandler = c[1],
                                       !.onRedirectSideEffect = c[2],
                                       !.handleClientError = c[3],
                                       !.handleServerError = c[3]],
      call |-> [DefaultCall EXCEPT !.safe = sf, !.options.onRedirect = o]] :
        e \in BOOLEAN, sf \in BOOLEAN, o \in BOOLEAN,
        c \in BOOLEAN \X BOOLEAN \X BOOLEAN}

\* the error hooks, the per-call callbacks and the shaper
ErrorScenarios ==
    {[env |-> e,
      transport |-> "any",
      config |-> [DefaultConfig EXCEPT !.handleClientError = c[1],
                                       !.handleServerError = c[2],
                                       !.responseFormat = f],
      call |-> [DefaultCall EXCEPT !.safe = sf,
                                   !.options.onError = o[1],
                                   !.options.schema = o[2]]] :
        e \in BOOLEAN, sf \in BOOLEAN, f \in {"default", "custom"},
        c \in BOOLEAN \X BOOLEAN, o \in BOOLEAN \X BOOLEAN}

\* every verb, relative and absolute paths, with and without a base URL
UrlScenarios ==
    {[env |-> TRUE,
      transport |-> "ok",
      config |-> [DefaultConfig EXCEPT !.baseUrl = b],
      call |-> [DefaultCall EXCEPT !.method = vb.method, !.safe = vb.safe, !.path = p]] :
        vb \in Verbs,
        b \in {Undefined, Str(""), Str("api.example.com"), Str("https://api.example.com"),
               Str("https://api.example.com/")},
        p \in {"/users", "users", "https://other-domain.com/test", "HTTP://other-domain.com/test"}}

\* what reaches the transport besides the headers
TransportScenarios ==
    {[env |-> e,
      transport |-> "ok",
      config |-> [DefaultConfig EXCEPT !.serverRedirectHandler = h, !.credentials = cr],
      call |-> [DefaultCall EXCEPT !.options.disableAuth = d, !.options.rest = r]] :
        e \in BOOLEAN, h \in BOOLEAN,
        cr \in {Undefined, Str("include")},
        d \in {Undefined, Bool("false"), Bool("true")},
        r \in {[cache |-> "default"],
               [cache |-> "default", redirect |-> "manual"],
               [cache |-> "default", redirect |-> "follow"],
               [cache |-> "default", credentials |-> Str("omit")],
               [cache |-> "default", redirect |-> "error", credentials |-> Str("include")]}}

\* the params objects of a call, as written by the caller
ParamsValues ==
    {<<>>,
     <<<<"q", Str("foo")>>, <<"page", Num("1")>>, <<"active", Bool("true")>>,
       <<"nullVal", Null>>>>,
     <<<<"u", Undefined>>, <<"zero", Num("0")>>, <<"empty", Str("")>>>>,
     <<<<"b", Str("x")>>, <<"1", Str("y")>>>>,
     <<<<"q", Str("a b")>>>>,
     <<<<"page", Num("2")>>>>}

\* paths with and without a query, bases with and without a path, params
ParamScenarios ==
    {[env |-> TRUE,
      transport |-> "ok",
      config |-> [DefaultConfig EXCEPT !.baseUrl = Str(b)],
      call |-> [DefaultCall EXCEPT !.path = p, !.options.params = q]] :
        b \in {"https://api.example.com", "https://api.example.com/v1",
               "https://API.example.com/v1/"},
        p \in {"/search", "search?page=9", "https://other-domain.com/test",
               "https://other-domain.com", "HTTPS://Other-Domain.com/test?page=9"},
        q \in ParamsValues}

RECURSIVE SeqsUpTo(_, _)
SeqsUpTo(S, n) ==
    IF n = 0 THEN {<<>>}
    ELSE LET shorter == SeqsUpTo(S, n - 1)
         IN shorter \cup {Append(q, x) : q \in shorter, x \in S}

HeaderNames == {"content-type", "Content-Type", "x-trace"}

\* headers sources and request bodies
HeaderScenarios ==
    {[env |-> TRUE,
      transport |-> "ok",
      config |-> [DefaultConfig EXCEPT !.headers = g],
      call |-> [DefaultCall EXCEPT !.method = "POST", !.options.headers = h,
                                   !.options.body = b]] :
        g \in SeqsUpTo({<<n, "global">> : n \in HeaderNames}, MaxHeaders),
        h \in SeqsUpTo({<<n, "local">> : n \in HeaderNames}, MaxHeaders),
        b \in {Undefined, Null, Num("0"), Str(""), Bool("false"), Obj("{\"name\":\"Test\"}")}}

\* a client whose shaper supplies the optional redirect operation
FullShaperScenarios ==
    {[env |-> e,
      transport |-> "few",
      config |-> [DefaultConfig EXCEPT !.serverRedirectHandler = h,
                                       !.responseFormat = "full"],
      call |-> [DefaultCall EXCEPT !.safe = sf, !.options.onRedirect = TRUE]] :
        e \in BOOLEAN, h \in BOOLEAN, sf \in BOOLEAN}

\* two different calls on a client with every hook configured, for the runs
\* in which two calls are in flight at once
ConcurrentScenarios ==
    {[env |-> e,
      transport |-> "pair",
      config |-> [DefaultConfig EXCEPT !.serverRedirectHandler = TRUE,
                                       !.onRedirectSideEffect = TRUE,
                                       !.handleClientError = TRUE,
                                       !.handleServerError = TRUE],
      call |-> c] :
        e \in BOOLEAN,
        c \in {[DefaultCall EXCEPT !.options.onRedirect = TRUE],
               [DefaultCall EXCEPT !.method = "POST", !.safe = TRUE, !.path = "/orders",
                                   !.options.body = Obj("{\"name\":\"Test\"}"),
                                   !.options.onError = TRUE]}}

Scenarios ==
    RedirectScenarios \cup ErrorScenarios \cup UrlScenarios \cup TransportScenarios
        \cup HeaderScenarios \cup ParamScenarios \cup ConcurrentScenarios
        \cup FullShaperScenarios

Locations == {Null, Str(""), Str("/login")}

ResponseHeaders(loc, ct) ==
    IF loc = Null THEN NewHeaders(<<<<"content-type", ct>>>>)
    ELSE NewHeaders(<<<<"content-type", ct>>, <<"location", loc.v>>>>)

\* what the transport may resolve with
Responses ==
    {[status |-> st[1], statusText |-> st[2], body |-> st[3],
      headers |-> ResponseHeaders(loc, st[4])] :
        st \in {<<200, "OK", "{\"id\":1}", "application/json">>,
                <<299, "", "some text", "text/plain">>,
                <<300, "Multiple Choices", "{}", "application/json">>,
                <<399, "", "", "text/plain">>,
                <<400, "Bad Request", "{\"id\":1}", "application/json">>,
                <<599, "", "<html>", "application/json">>},
        loc \in Locations}

\* the responses of a transport: any of them, or only a plain 200
TransportResponses(t) ==
    IF t = "any" THEN Responses
    ELSE IF t \in {"pair", "few"}
    THEN {r \in Responses :
            \/ r.status = 200 /\ HeadersGet(r.headers, "location") = Null
            \/ r.status = 300 /\ HeadersGet(r.headers, "location") = Str("/login")
            \/ r.status = 400 /\ HeadersGet(r.headers, "location") = Null}
    ELSE {r \in Responses : r.status = 200 /\ HeadersGet(r.headers, "location") = Null}

\* what an awaited hook does when it is invoked
Behaviours == {"returns", "throws", "hangs"}

\* what onError may return
OverrideValues ==
    {Undefined, Null, Num("0"), Bool("false"), Str(""), Obj("{\"fallback\":\"value\"}")}

\* what schema.parse returns for the data it is given
SchemaParse(data) == Obj("schema(" \o data.v \o ")")

-----------------------------------------------------------------------------
(* execute: building the request.                                          *)

\* { ...a, ...b }: the keys of b win
Spread(a, b) ==
    [k \in DOMAIN a \cup DOMAIN b |-> IF k \in DOMAIN b THEN b[k] ELSE a[k]]

\* mergedHeaders, after the content-type default
RequestHeaders(cfg, opts) ==
    LET mergedHeaders == mergeHeaders(<<cfg.headers, opts.headers>>)
    IN IF Truthy(opts.body) /\ ~HeadersHas(mergedHeaders, "content-type")
       THEN HeadersSet(mergedHeaders, "content-type", "application/json")
       ELSE mergedHeaders

\* body ? JSON.stringify(body) : undefined
RequestBody(opts) ==
    IF Truthy(opts.body) THEN Str(JSONStringify(opts.body)) ELSE Undefined

\* isServer() && redirects?.serverRedirectHandler ? "manual" : "follow"
RedirectMode(cfg, env) ==
    IF env /\ cfg.serverRedirectHandler THEN "manual" ELSE "follow"

\* the credentials with the disableAuth test left out
CredentialsIgnoringDisableAuth(cfg, env, opts) ==
    IF ~env THEN cfg.credentials ELSE Undefined

\* !isServer() && !disableAuth ? auth?.client?.credentials : undefined
Credentials(cfg, env, opts) ==
    IF ~env /\ ~Truthy(opts.disableAuth) THEN cfg.credentials ELSE Undefined

\* the second argument of fetch with ...rest spread last
FetchInitRestWins(cfg, env, c) ==
    Spread([method |-> c.method,
            headers |-> RequestHeaders(cfg, c.options),
            body |-> RequestBody(c.options),
            redirect |-> RedirectMode(cfg, env),
            credentials |-> Credentials(cfg, env, c.options)],
           c.options.rest)

\* the second argument of fetch
FetchInit(cfg, env, c) ==
    Spread(c.options.rest,
           [method |-> c.method,
            headers |-> RequestHeaders(cfg, c.options),
            body |-> RequestBody(c.options),
            redirect |-> RedirectMode(cfg, env),
            credentials |-> Credentials(cfg, env, c.options)])

\* the client-global headers after a merge that writes into the first source
GlobalHeadersMergedInPlace(cfg, opts) ==
    LET h == RequestHeaders(cfg, opts)
        names == SetToSeq(DOMAIN h)
    IN [i \in 1..Len(names) |-> <<names[i], h[names[i]]>>]

\* the client-global headers after mergeHeaders and the content-type default:
\* both write to the fresh Headers object h, the sources are only read
GlobalHeadersAfter(cfg, opts) == cfg.headers

RequestContext(cfg, env, c) ==
    [isServer |-> env,
     url |-> buildUrl(cfg.baseUrl, c.path, c.options.params),
     method |-> c.method,
     headers |-> RequestHeaders(cfg, c.options)]

-----------------------------------------------------------------------------
(* The state machine.                                                      *)

Pending == [kind |-> "pending"]
Returned(v) == [kind |-> "returned", value |-> v]
Raised(e) == [kind |-> "raised", error |-> e]

Invoked(hook, how, args, ret) == [hook |-> hook, how |-> how, args |-> args, ret |-> ret]

\* the module of the lazy proxy when it is loaded: apiInstance is null (0),
\* createFetchClient has made no client, nobody has called through the proxy
LazyInit ==
    [apiInstance |-> 0,
     instances |-> <<>>,
     initCalls |-> <<>>,
     callers |-> [p \in ProxyCallers |-> [pc |-> "idle", client |-> 0, calls |-> 0]],
     forwarded |-> {}]

\* the locals of an invocation of execute that has not begun
LocalsIdle ==
    [pc |-> "idle", call |-> None, ctx |-> None, fetchCalls |-> <<>>, res |-> None,
     parsed |-> None, shaped |-> None, log |-> <<>>, result |-> Pending]

Init ==
    /\ \E s \in Scenarios :
        config = s.config /\ isServerEnv = s.env /\ transport = s.transport
    /\ pc = "idle"
    /\ call = None
    /\ ctx = None
    /\ fetchCalls = <<>>
    /\ res = None
    /\ parsed = None
    /\ shaped = None
    /\ log = <<>>
    /\ result = Pending
    /\ earlier = {}
    /\ suspended = LocalsIdle
    /\ lazy = LazyInit

\* a call settles: nothing of the pipeline runs after it
Settle(r) ==
    /\ pc' = "done"
    /\ result' = r

\* client.<verb>(path, options): execute up to `await fetch(...)`
Call ==
    /\ pc = "idle"
    /\ \E s \in Scenarios :
        /\ s.config = config
        /\ s.env = isServerEnv
        /\ s.transport = transport
        /\ call' = s.call
        /\ IF RequiresBaseUrl(config.baseUrl, s.call.path)
           THEN /\ Settle(Raised(UrlError(s.call.path)))
                /\ UNCHANGED <<ctx, fetchCalls>>
           ELSE IF NewUrlThrows(config.baseUrl, s.call.path)
           THEN /\ Settle(Raised(InvalidUrlError))
                /\ UNCHANGED <<ctx, fetchCalls>>
           ELSE /\ ctx' = RequestContext(config, isServerEnv, s.call)
                /\ fetchCalls' = Append(fetchCalls,
                        [url |-> buildUrl(config.baseUrl, s.call.path, s.call.options.params),
                         init |-> FetchInit(config, isServerEnv, s.call)])
                /\ pc' = "fetch"
                /\ UNCHANGED result
        /\ config' = [config EXCEPT !.headers =
                          IF RequiresBaseUrl(config.baseUrl, s.call.path)
                                \/ NewUrlThrows(config.baseUrl, s.call.path)
                          THEN config.headers
                          ELSE GlobalHeadersAfter(config, s.call.options)]
    /\ UNCHANGED <<lazy, isServerEnv, transport, earlier, suspended, res, parsed, shaped, log>>

\* the transport resolves with a response
FetchResolves ==
    /\ pc = "fetch"
    /\ \E r \in TransportResponses(transport) :
          /\ res' = r
          /\ fetchCalls' = [fetchCalls EXCEPT ![Len(fetchCalls)] =
                                [url |-> @.url, init |-> @.init, response |-> r]]
    /\ pc' = "redirect"
    /\ UNCHANGED <<lazy, config, isServerEnv, transport, earlier, suspended, call, ctx, parsed, shaped, log, result>>

\* a rejection of the transport caught and returned as a value in safe mode
FetchRejectsCaughtWhenSafe ==
    /\ pc = "fetch"
    /\ Settle(IF call.safe THEN Returned(TransportError) ELSE Raised(TransportError))
    /\ UNCHANGED <<lazy, config, isServerEnv, transport, earlier, suspended, call, ctx, fetchCalls, res, parsed, shaped, log>>

\* a rejection of the transport answered by one more dispatch
FetchRejectsRetryingOnce ==
    /\ pc = "fetch"
    /\ IF Len(fetchCalls) < 2
       THEN /\ fetchCalls' = Append(fetchCalls, fetchCalls[1])
            /\ UNCHANGED <<pc, result>>
       ELSE /\ Settle(Raised(TransportError))
            /\ UNCHANGED fetchCalls
    /\ UNCHANGED <<lazy, config, isServerEnv, transport, earlier, suspended, call, ctx, res, parsed, shaped, log>>

\* the transport rejects: execute does not catch it
FetchRejects ==
    /\ pc = "fetch"
    /\ Settle(Raised(TransportError))
    /\ UNCHANGED <<lazy, config, isServerEnv, transport, earlier, suspended, call, ctx, fetchCalls, res, parsed, shaped, log>>

-----------------------------------------------------------------------------
(* handleRedirect.                                                         *)

\* the first early return of handleRedirect alone
IsRedirectByStatusAlone(r) == ~(r.status < 300 \/ r.status >= 400)

\* neither of the two early returns of handleRedirect is taken
IsRedirect(r) ==
    /\ ~(r.status < 300 \/ r.status >= 400)
    /\ Truthy(HeadersGet(r.headers, "location"))

RedirectContext(r, rc) ==
    [location |-> HeadersGet(r.headers, "location").v, status |-> r.status, ctx |-> rc]

\* an optional hook is called without waiting for what it returns
CallHookWithoutAwait(sofar, present, name, args, next) ==
    IF ~present
    THEN /\ pc' = next
         /\ log' = sofar
         /\ UNCHANGED result
    ELSE \E how \in Behaviours :
            /\ log' = Append(sofar, Invoked(name, how, args, Undefined))
            /\ pc' = next
            /\ UNCHANGED result

\* an optional hook is called and awaited: absent, it is skipped; present, it
\* returns, throws, or gives a promise that never settles, and then the call
\* never settles either.  `next` is where the code goes on when it returns.
AwaitHook(sofar, present, name, args, next) ==
    IF ~present
    THEN /\ pc' = next
         /\ log' = sofar
         /\ UNCHANGED result
    ELSE \E how \in Behaviours :
            /\ log' = Append(sofar, Invoked(name, how, args, Undefined))
            /\ CASE how = "throws" -> Settle(Raised(ThrownBy(name)))
                 [] how = "hangs" -> pc' = "hung" /\ UNCHANGED result
                 [] OTHER -> pc' = next /\ UNCHANGED result

\* handleRedirect returns at once
NotARedirect ==
    /\ pc = "redirect"
    /\ ~IsRedirect(res)
    /\ pc' = "parse"
    /\ UNCHANGED <<lazy, config, isServerEnv, transport, earlier, suspended, call, ctx, fetchCalls, res, parsed, shaped, log, result>>

\* await onRedirect?.(rctx)
OnRedirect ==
    /\ pc = "redirect"
    /\ IsRedirect(res)
    /\ AwaitHook(log, call.options.onRedirect, "onRedirect",
                 [rctx |-> RedirectContext(res, ctx)], "sideEffect")
    /\ UNCHANGED <<lazy, config, isServerEnv, transport, earlier, suspended, call, ctx, fetchCalls, res, parsed, shaped>>

\* await redirects?.onRedirectSideEffect?.(rctx)
OnRedirectSideEffect ==
    /\ pc = "sideEffect"
    /\ AwaitHook(log, config.onRedirectSideEffect, "onRedirectSideEffect",
                 [rctx |-> RedirectContext(res, ctx)], "authoritative")
    /\ UNCHANGED <<lazy, config, isServerEnv, transport, earlier, suspended, call, ctx, fetchCalls, res, parsed, shaped>>

\* the test for the authoritative handler without the environment
AuthoritativeIgnoringEnvironment(cfg, rc) == cfg.serverRedirectHandler

\* if (ctx.isServer && redirects?.serverRedirectHandler)
Authoritative(cfg, rc) == rc.isServer /\ cfg.serverRedirectHandler

\* the authoritative handler called with what it throws swallowed
ServerRedirectHandlerSwallowingErrors ==
    /\ pc = "authoritative"
    /\ Authoritative(config, ctx)
    /\ CallHookWithoutAwait(log, TRUE, "serverRedirectHandler",
                            [rctx |-> RedirectContext(res, ctx)], "unterminated")
    /\ UNCHANGED <<lazy, config, isServerEnv, transport, earlier, suspended, call, ctx, fetchCalls, res, parsed, shaped>>

\* await redirects.serverRedirectHandler(rctx)
ServerRedirectHandler ==
    /\ pc = "authoritative"
    /\ Authoritative(config, ctx)
    /\ AwaitHook(log, TRUE, "serverRedirectHandler",
                 [rctx |-> RedirectContext(res, ctx)], "unterminated")
    /\ UNCHANGED <<lazy, config, isServerEnv, transport, earlier, suspended, call, ctx, fetchCalls, res, parsed, shaped>>

\* handleRedirect without the throw after the authoritative handler
DidNotTerminateFallsThrough ==
    /\ pc = "unterminated"
    /\ pc' = "parse"
    /\ UNCHANGED <<lazy, config, isServerEnv, transport, earlier, suspended, call, ctx, fetchCalls, res, parsed, shaped,
                   log, result>>

\* the handler returned: throw new Error("serverRedirectHandler did not terminate ...")
DidNotTerminate ==
    /\ pc = "unterminated"
    /\ Settle(Raised(TerminationError(RedirectContext(res, ctx).location)))
    /\ UNCHANGED <<lazy, config, isServerEnv, transport, earlier, suspended, call, ctx, fetchCalls, res, parsed, shaped, log>>

\* a handleRedirect that reports the redirect and an execute that returns it
\* as a redirect shape in safe mode
ObservedOnlyReturningRedirectShape ==
    /\ pc = "authoritative"
    /\ ~Authoritative(config, ctx)
    /\ IF call.safe
       THEN Settle(Returned([ok |-> FALSE, redirected |-> TRUE, status |-> res.status,
                             location |-> RedirectContext(res, ctx).location]))
       ELSE pc' = "parse" /\ UNCHANGED result
    /\ UNCHANGED <<lazy, config, isServerEnv, transport, earlier, suspended, call, ctx, fetchCalls, res, parsed, shaped, log>>

\* no authoritative handler applies: handleRedirect returns
ObservedOnly ==
    /\ pc = "authoritative"
    /\ ~Authoritative(config, ctx)
    /\ pc' = "parse"
    /\ UNCHANGED <<lazy, config, isServerEnv, transport, earlier, suspended, call, ctx, fetchCalls, res, parsed, shaped, log, result>>

\* const parsed = await parseResponse(res)
ParseResponse ==
    /\ pc = "parse"
    /\ parsed' = parseResponse(res)
    /\ pc' = "parsed"
    /\ UNCHANGED <<lazy, config, isServerEnv, transport, earlier, suspended, call, ctx, fetchCalls, res, shaped, log, result>>

-----------------------------------------------------------------------------
(* handleError.                                                            *)

\* the end of handleError throwing in safe mode too
ErrorOutcomeIgnoringSafe(safe, override, sh) ==
    IF override # Undefined THEN Returned(override)
    ELSE Raised(HttpError(sh))

\* the end of handleError with `if (override)` for `if (override !== undefined)`
ErrorOutcomeTruthyOverride(safe, override, sh) ==
    IF Truthy(override) THEN Returned(override)
    ELSE IF safe THEN Returned(sh)
    ELSE Raised(HttpError(sh))

\* the end of handleError: the override, the shaped error, or a throw
ErrorOutcome(safe, override, sh) ==
    IF override # Undefined THEN Returned(override)
    ELSE IF safe THEN Returned(sh)
    ELSE Raised(HttpError(sh))

\* the global hook chosen without looking at the environment
GlobalErrorHookIgnoringEnvironment(cfg, rc, sh) ==
    [present |-> cfg.handleServerError, name |-> "handleServerError",
     args |-> [error |-> sh, ctx |-> rc]]

\* if (ctx.isServer) handlers?.handleServerError?.(shaped, ctx)
\* else handlers?.handleClientError?.(shaped)
GlobalErrorHook(cfg, rc, sh) ==
    IF rc.isServer
    THEN [present |-> cfg.handleServerError, name |-> "handleServerError",
          args |-> [error |-> sh, ctx |-> rc]]
    ELSE [present |-> cfg.handleClientError, name |-> "handleClientError",
          args |-> [error |-> sh]]

\* handleError running the global hook in throwing mode only
HandleErrorSkippingHookWhenSafe ==
    /\ pc = "parsed"
    /\ ~ResponseOk(res)
    /\ LET errorCtx == ErrorContext(res, parsed, ctx)
           sh == ShaperError(config, errorCtx)
           sofar == Append(log, Invoked("shaper.error", "returns", [ctx |-> errorCtx], sh))
       IN /\ shaped' = sh
          /\ LET hook == GlobalErrorHook(config, ctx, sh)
             IN AwaitHook(sofar, hook.present /\ ~call.safe, hook.name, hook.args, "onError")
    /\ UNCHANGED <<lazy, config, isServerEnv, transport, earlier, suspended, call, ctx, fetchCalls, res, parsed>>

\* handleError up to the await of the global hook of the environment
HandleError ==
    /\ pc = "parsed"
    /\ ~ResponseOk(res)
    /\ LET errorCtx == ErrorContext(res, parsed, ctx)
           sh == ShaperError(config, errorCtx)
           sofar == Append(log, Invoked("shaper.error", "returns", [ctx |-> errorCtx], sh))
       IN /\ shaped' = sh
          /\ LET hook == GlobalErrorHook(config, ctx, sh)
             IN AwaitHook(sofar, hook.present, hook.name, hook.args, "onError")
    /\ UNCHANGED <<lazy, config, isServerEnv, transport, earlier, suspended, call, ctx, fetchCalls, res, parsed>>

\* const override = onError?.(shaped), and the end of handleError
OnError ==
    /\ pc = "onError"
    /\ IF ~call.options.onError
       THEN /\ Settle(ErrorOutcome(call.safe, Undefined, shaped))
            /\ UNCHANGED log
       ELSE \/ /\ log' = Append(log, Invoked("onError", "throws", [error |-> shaped], Undefined))
               /\ Settle(Raised(ThrownBy("onError")))
            \/ \E override \in OverrideValues :
                  /\ log' = Append(log, Invoked("onError", "returns", [error |-> shaped], override))
                  /\ Settle(ErrorOutcome(call.safe, override, shaped))
    /\ UNCHANGED <<lazy, config, isServerEnv, transport, earlier, suspended, call, ctx, fetchCalls, res, parsed, shaped>>

-----------------------------------------------------------------------------
(* The success path of execute.                                            *)

\* the end of execute wrapping the data in throwing mode too
SuccessOutcomeAlwaysShaped(cfg, safe, data, r) == Returned(ShaperSuccess(cfg, data, r))

\* what execute returns for the data of a 2xx response
SuccessOutcome(cfg, safe, data, r) ==
    IF safe THEN Returned(ShaperSuccess(cfg, data, r)) ELSE Returned(data)

SuccessLog(sofar, cfg, safe, data, r) ==
    IF safe
    THEN Append(sofar, Invoked("shaper.success", "returns", [data |-> data, response |-> r],
                               ShaperSuccess(cfg, data, r)))
    ELSE sofar

\* the success path with a throwing validator caught in safe mode
SuccessCatchingSchemaWhenSafe ==
    /\ pc = "parsed"
    /\ ResponseOk(res)
    /\ IF ~call.options.schema
       THEN /\ log' = SuccessLog(log, config, call.safe, parsed, res)
            /\ Settle(SuccessOutcome(config, call.safe, parsed, res))
       ELSE \/ /\ log' = Append(log, Invoked("schema.parse", "throws", [data |-> parsed], Undefined))
               /\ Settle(IF call.safe THEN Returned(ThrownBy("schema.parse"))
                              ELSE Raised(ThrownBy("schema.parse")))
            \/ LET data == SchemaParse(parsed)
                   sofar == Append(log, Invoked("schema.parse", "returns", [data |-> parsed], data))
               IN /\ log' = SuccessLog(sofar, config, call.safe, data, res)
                  /\ Settle(SuccessOutcome(config, call.safe, data, res))
    /\ UNCHANGED <<lazy, config, isServerEnv, transport, earlier, suspended, call, ctx, fetchCalls, res, parsed, shaped>>

\* the success path of execute: schema.parse, then the outcome
Success ==
    /\ pc = "parsed"
    /\ ResponseOk(res)
    /\ IF ~call.options.schema
       THEN /\ log' = SuccessLog(log, config, call.safe, parsed, res)
            /\ Settle(SuccessOutcome(config, call.safe, parsed, res))
       ELSE \/ /\ log' = Append(log, Invoked("schema.parse", "throws", [data |-> parsed], Undefined))
               /\ Settle(Raised(ThrownBy("schema.parse")))
            \/ LET data == SchemaParse(parsed)
                   sofar == Append(log, Invoked("schema.parse", "returns", [data |-> parsed], data))
               IN /\ log' = SuccessLog(sofar, config, call.safe, data, res)
                  /\ Settle(SuccessOutcome(config, call.safe, data, res))
    /\ UNCHANGED <<lazy, config, isServerEnv, transport, earlier, suspended, call, ctx, fetchCalls, res, parsed, shaped>>

\* the caller has the outcome; the client is ready for the next call
Return ==
    /\ pc = "done"
    /\ pc' = "idle"
    /\ call' = None
    /\ ctx' = None
    /\ fetchCalls' = <<>>
    /\ res' = None
    /\ parsed' = None
    /\ shaped' = None
    /\ log' = <<>>
    /\ result' = Pending
    /\ earlier' = earlier \cup UNION {DOMAIN fetchCalls[i].init.headers : i \in 1..Len(fetchCalls)}
    /\ UNCHANGED <<lazy, config, isServerEnv, transport, suspended>>

Next ==
    \/ Call
    \/ FetchResolves
    \/ FetchRejects
    \/ NotARedirect
    \/ OnRedirect
    \/ OnRedirectSideEffect
    \/ ServerRedirectHandler
    \/ DidNotTerminate
    \/ ObservedOnly
    \/ ParseResponse
    \/ HandleError
    \/ OnError
    \/ Success
    \/ Return

Spec == Init /\ [][Next]_vars

\* the steps of a call in flight: the transport settles, the body is read,
\* and every hook, callback and validator that is invoked completes
Pipeline ==
    \/ FetchResolves
    \/ FetchRejects
    \/ NotARedirect
    \/ OnRedirect
    \/ OnRedirectSideEffect
    \/ ServerRedirectHandler
    \/ DidNotTerminate
    \/ ObservedOnly
    \/ ParseResponse
    \/ HandleError
    \/ OnError
    \/ Success

\* the clients with every hook configured or with a full shaper
InitLive == Init /\ transport \in {"pair", "few"}

\* the event loop runs every continuation that is ready
SpecLive == InitLive /\ [][Next]_vars /\ WF_vars(Pipeline)

-----------------------------------------------------------------------------
(* The lazy proxy.                                                         *)

\* the configs initApi is called with: its default {} and one of the caller
InitApiConfigs == {"{}", "{baseUrl}"}

\* an initApi that makes a client at every call
InitApiAlwaysCreating(lz, cfg) ==
    [lz EXCEPT !.instances = Append(@, cfg),
               !.apiInstance = Len(lz.instances) + 1,
               !.initCalls = Append(@, cfg)]

\* initApi(config), which runs to its end without an await: the instance there
\* is, or a new client made from config and stored in apiInstance
initApi(lz, cfg) ==
    IF lz.apiInstance # 0
    THEN [lz EXCEPT !.initCalls = Append(@, cfg)]
    ELSE [lz EXCEPT !.instances = Append(@, cfg),
                    !.apiInstance = Len(lz.instances) + 1,
                    !.initCalls = Append(@, cfg)]

\* proxy.<prop>(...args) up to `await initApi()`: initApi runs with its
\* default config and the caller waits for the promise of its result
ProxyCall ==
    /\ \E p \in ProxyCallers :
          /\ lazy.callers[p].pc = "idle"
          /\ lazy.callers[p].calls < MaxProxyCalls
          /\ LET after == initApi(lazy, "{}")
             IN lazy' = [after EXCEPT !.callers[p] =
                            [pc |-> "awaiting", client |-> after.apiInstance,
                             calls |-> @.calls + 1]]
    /\ UNCHANGED <<config, isServerEnv, transport, pc, call, ctx, fetchCalls, res, parsed, shaped,
                   log, result, earlier, suspended>>

\* return client[prop](...args)
ProxyForward ==
    /\ \E p \in ProxyCallers :
          /\ lazy.callers[p].pc = "awaiting"
          /\ lazy' = [lazy EXCEPT !.callers[p].pc = "idle",
                                  !.forwarded = @ \cup {<<p, lazy.callers[p].client>>}]
    /\ UNCHANGED <<config, isServerEnv, transport, pc, call, ctx, fetchCalls, res, parsed, shaped,
                   log, result, earlier, suspended>>

\* initApi(config) called from the module itself
InitApi ==
    /\ Len(SelectSeq(lazy.initCalls, LAMBDA c : c # "{}")) < MaxInitApiCalls
    /\ \E cfg \in InitApiConfigs \ {"{}"} : lazy' = initApi(lazy, cfg)
    /\ UNCHANGED <<config, isServerEnv, transport, pc, call, ctx, fetchCalls, res, parsed, shaped,
                   log, result, earlier, suspended>>

InitLazy == Init /\ transport = "few" /\ isServerEnv /\ config.serverRedirectHandler

NextLazy ==
    \/ ProxyCall
    \/ ProxyForward
    \/ InitApi

SpecLazy == InitLazy /\ [][NextLazy]_vars

-----------------------------------------------------------------------------
(* Two calls in flight on one client.                                      *)

\* the locals of the invocation of execute that is running
Current ==
    [pc |-> pc, call |-> call, ctx |-> ctx, fetchCalls |-> fetchCalls, res |-> res,
     parsed |-> parsed, shaped |-> shaped, log |-> log, result |-> result]

\* a switch in which the response is a variable shared by the invocations
SwitchSharingResponse ==
    /\ suspended' = Current
    /\ pc' = suspended.pc
    /\ call' = suspended.call
    /\ ctx' = suspended.ctx
    /\ fetchCalls' = suspended.fetchCalls
    /\ parsed' = suspended.parsed
    /\ shaped' = suspended.shaped
    /\ log' = suspended.log
    /\ result' = suspended.result
    /\ UNCHANGED <<lazy, config, isServerEnv, transport, earlier, res>>

\* the running invocation is at an await (or has not begun, or is over) and
\* the event loop resumes the other one: each invocation of the async
\* function execute has its own locals
Switch ==
    /\ suspended' = Current
    /\ pc' = suspended.pc
    /\ call' = suspended.call
    /\ ctx' = suspended.ctx
    /\ fetchCalls' = suspended.fetchCalls
    /\ res' = suspended.res
    /\ parsed' = suspended.parsed
    /\ shaped' = suspended.shaped
    /\ log' = suspended.log
    /\ result' = suspended.result
    /\ UNCHANGED <<lazy, config, isServerEnv, transport, earlier>>

InitConcurrent == Init /\ transport = "pair"

NextConcurrent ==
    \/ Call
    \/ FetchResolves
    \/ FetchRejects
    \/ NotARedirect
    \/ OnRedirect
    \/ OnRedirectSideEffect
    \/ ServerRedirectHandler
    \/ DidNotTerminate
    \/ ObservedOnly
    \/ ParseResponse
    \/ HandleError
    \/ OnError
    \/ Success
    \/ Return
    \/ Switch

SpecConcurrent == InitConcurrent /\ [][NextConcurrent]_vars

-----------------------------------------------------------------------------
(* Properties.                                                             *)

Done == pc = "done"

\* the current call got a response with a status in 400..599
HttpErrorStatus == res # None /\ res.status >= 400 /\ res.status <= 599

\* some hook or callback invoked by the current call threw
SomeHookThrew == \E i \in 1..Len(log) : log[i].how = "throws"

\* some hook invoked by the current call gave a promise that never settles
SomeHookHung == \E i \in 1..Len(log) : log[i].how = "hangs"

\* onError was invoked and returned the value v
OnErrorReturned(v) ==
    \E i \in 1..Len(log) :
        log[i].hook = "onError" /\ log[i].how = "returns" /\ log[i].ret = v

\* onError was not supplied, or returned undefined
NoOverride ==
    \A i \in 1..Len(log) :
        log[i].hook = "onError" => (log[i].how = "returns" /\ log[i].ret = Undefined)

\* the error shape the configured shaper gives for the response of the call
ExpectedShape ==
    IF config.responseFormat = "custom"
    THEN [ok |-> FALSE, status |-> res.status, message |-> "Custom Error",
          customField |-> "customValue", raw |-> res]
    ELSE [ok |-> FALSE, status |-> res.status,
          message |-> "HTTP " \o ToString(res.status) \o ": " \o res.statusText,
          data |-> parsed, raw |-> res]

C4_SafeNeverThrows ==
    (Done /\ call.safe) => result.kind = "returned"

\* the response of the current call is a 3xx with a non-empty location header
RedirectSeen ==
    /\ res # None
    /\ res.status >= 300 /\ res.status < 400
    /\ "location" \in DOMAIN res.headers
    /\ res.headers["location"] # ""

\* the hook was invoked by the current call and returned
HookReturned(name) ==
    \E i \in 1..Len(log) : log[i].hook = name /\ log[i].how = "returns"

\* C5: server-side with serverRedirectHandler configured, a 3xx response with
\* a location header whose authoritative handler returns normally makes the
\* call raise the 'did not terminate' error in both modes, the handler having
\* been invoked with the redirect context.
C5_UnterminatedRedirectRaises ==
    /\ (Done /\ HookReturned("serverRedirectHandler")) =>
          /\ isServerEnv /\ config.serverRedirectHandler /\ RedirectSeen
          /\ result = [kind |-> "raised",
                       error |-> [name |-> "Error",
                                  message |-> "serverRedirectHandler did not terminate for redirect to "
                                                  \o res.headers["location"]]]
          /\ log[Len(log)] =
                [hook |-> "serverRedirectHandler", how |-> "returns",
                 args |-> [rctx |-> [location |-> res.headers["location"],
                                     status |-> res.status, ctx |-> ctx]],
                 ret |-> Undefined]
    /\ (isServerEnv /\ config.serverRedirectHandler /\ RedirectSeen
          /\ ~SomeHookThrew /\ ~SomeHookHung) =>
          /\ pc \in {"redirect", "sideEffect", "authoritative", "unterminated", "done"}
          /\ Done => HookReturned("serverRedirectHandler")

C5_Witness ==
    /\ Done /\ call.safe
    /\ HookReturned("serverRedirectHandler")
    /\ HookReturned("onRedirect")
    /\ result.kind = "raised"
    /\ result.error.message = "serverRedirectHandler did not terminate for redirect to /login"

\* C6: the redirect mode passed to the transport is "manual" exactly when the
\* call runs server-side and serverRedirectHandler is configured, and "follow"
\* otherwise; a redirect among the pass-through options never changes it.
C6_RedirectMode ==
    \A i \in 1..Len(fetchCalls) :
        /\ fetchCalls[i].init.redirect \in {"manual", "follow"}
        /\ fetchCalls[i].init.redirect = "manual"
              <=> (isServerEnv /\ config.serverRedirectHandler)

C6_Witness ==
    /\ Len(fetchCalls) = 1
    /\ "redirect" \in DOMAIN call.options.rest
    /\ call.options.rest.redirect = "manual"
    /\ ~isServerEnv /\ config.serverRedirectHandler
    /\ fetchCalls[1].init.redirect = "follow"

\* C7: the transport gets the configured client credentials mode only when the
\* call runs client-side and disableAuth is not set; server-side calls and calls
\* with disableAuth set get undefined, whatever the configuration and the
\* credentials among the pass-through options.
C7_Credentials ==
    \A i \in 1..Len(fetchCalls) :
        IF ~isServerEnv /\ call.options.disableAuth \in {Undefined, Bool("false")}
        THEN fetchCalls[i].init.credentials = config.credentials
        ELSE fetchCalls[i].init.credentials = Undefined

C7_Witness ==
    /\ Len(fetchCalls) = 1
    /\ ~isServerEnv
    /\ call.options.disableAuth = Bool("true")
    /\ config.credentials = Str("include")
    /\ "credentials" \in DOMAIN call.options.rest
    /\ fetchCalls[1].init.credentials = Undefined

HasContentType(source) ==
    \E i \in 1..Len(source) : ToLower(source[i][1]) = "content-type"

\* C9: for every supplied body: when neither headers source has a
\* content-type (under any letter case) the dispatched request has content-type
\* application/json and carries the JSON serialization of the body; when a
\* source supplies a content-type, that value is dispatched.
C9_JsonContentType ==
    \A i \in 1..Len(fetchCalls) :
        call.options.body \notin {Undefined, Null} =>
            IF ~HasContentType(config.headers) /\ ~HasContentType(call.options.headers)
            THEN /\ "content-type" \in DOMAIN fetchCalls[i].init.headers
                 /\ fetchCalls[i].init.headers["content-type"] = "application/json"
                 /\ fetchCalls[i].init.body = Str(JSONStringify(call.options.body))
            ELSE /\ "content-type" \in DOMAIN fetchCalls[i].init.headers
                 /\ fetchCalls[i].init.headers["content-type"] =
                        IF HasContentType(call.options.headers)
                        THEN NewHeaders(call.options.headers)["content-type"]
                        ELSE NewHeaders(config.headers)["content-type"]

\* C10: the dispatched headers hold every name of the client-global and of the
\* per-call headers, and for a name present in both (compared without regard
\* to case) the dispatched value is the per-call value.
C10_PerCallHeaderWins ==
    \A i \in 1..Len(fetchCalls) :
        LET sent == fetchCalls[i].init.headers
            global == config.headers
            local == call.options.headers
        IN /\ \A j \in 1..Len(global) : ToLower(global[j][1]) \in DOMAIN sent
           /\ \A j \in 1..Len(local) : ToLower(local[j][1]) \in DOMAIN sent
           /\ \A j \in 1..Len(local) :
                 sent[ToLower(local[j][1])] = NewHeaders(local)[ToLower(local[j][1])]
           /\ \A j \in 1..Len(global) :
                 (\A k \in 1..Len(local) : ToLower(local[k][1]) # ToLower(global[j][1]))
                     => sent[ToLower(global[j][1])] = NewHeaders(global)[ToLower(global[j][1])]

C10_Witness ==
    /\ Len(fetchCalls) = 1
    /\ config.headers = <<<<"Content-Type", "global">>, <<"x-trace", "global">>>>
    /\ call.options.headers = <<<<"content-type", "local">>>>
    /\ fetchCalls[1].init.headers = [n \in {"content-type", "x-trace"} |->
                                        IF n = "content-type" THEN "local" ELSE "global"]

-----------------------------------------------------------------------------
(* URL construction, as dispatched.                                        *)

\* the pairs of a params object whose value is neither null nor undefined, in
\* the order the caller wrote them
WrittenPairs(params) == SelectSeq(params, LAMBDA e : e[2] \notin {Null, Undefined})

RECURSIVE KeyValues(_)
KeyValues(pairs) ==
    IF pairs = <<>> THEN ""
    ELSE pairs[1][1] \o "=" \o ToStr(pairs[1][2])
            \o (IF Len(pairs) > 1 THEN "&" ELSE "") \o KeyValues(Tail(pairs))

\* url with key=value appended for each of the pairs
WithAppended(url, pairs) ==
    IF pairs = <<>> THEN url
    ELSE url \o (IF FindFrom(url, "?", 1) <= Len(url) THEN "&" ELSE "?") \o KeyValues(pairs)

\* C11: the dispatched URL is the path itself when the path starts with
\* http:// or https://, and the path resolved against baseUrl otherwise;
\* in both cases followed by key=value for each params key whose value is not
\* null or undefined, in insertion order.
C11_UrlVerbatimOrResolved ==
    \A i \in 1..Len(fetchCalls) :
        fetchCalls[i].url =
            WithAppended(IF isAbsolute(call.path) THEN call.path
                         ELSE buildUrl(config.baseUrl, call.path, <<>>),
                         WrittenPairs(call.options.params))

\* the part of C11 that holds: a relative path without a query of its own,
\* params with plain values and no array-index key
C11_PlainRelative ==
    \A i \in 1..Len(fetchCalls) :
        (/\ ~isAbsolute(call.path)
         /\ FindFrom(call.path, "?", 1) > Len(call.path)
         /\ \A j \in 1..Len(call.options.params) :
               /\ call.options.params[j][1] \notin DOMAIN ArrayIndex
               /\ FormEncode(ToStr(call.options.params[j][2])) = ToStr(call.options.params[j][2]))
        => fetchCalls[i].url =
              WithAppended(buildUrl(config.baseUrl, call.path, <<>>),
                           WrittenPairs(call.options.params))

-----------------------------------------------------------------------------
(* The success path.                                                       *)

\* the invocations of a hook, callback or shaper operation by the current call
Invocations(name) == {i \in 1..Len(log) : log[i].hook = name}

\* the current call got a 2xx response and went through the success path
\* without the schema validator throwing
Succeeded ==
    /\ Done
    /\ res # None /\ res.status >= 200 /\ res.status <= 299
    /\ parsed # None
    /\ \A i \in Invocations("schema.parse") : log[i].how = "returns"

\* the data of the current call: what the validator returned, or the parsed body
DataOf ==
    IF call.options.schema
    THEN log[CHOOSE i \in Invocations("schema.parse") : TRUE].ret
    ELSE parsed

-----------------------------------------------------------------------------
(* The default shaper.                                                     *)

\* the shapes of StandardResponse
IsStandardSuccess(v, data, r) ==
    /\ DOMAIN v = {"ok", "status", "data", "headers", "raw"}
    /\ v.ok = TRUE /\ v.data = data /\ v.status = r.status
    /\ v.headers = r.headers /\ v.raw = r

IsStandardError(v, ectx) ==
    /\ DOMAIN v = {"ok", "status", "message", "data", "raw"}
    /\ v.ok = FALSE /\ v.status = ectx.status /\ v.message = ectx.message
    /\ v.data = ectx.parsedBody /\ v.raw = ectx.raw

\* every shaping done by the current call gave the standard shape
StandardShapes ==
    /\ \A i \in Invocations("shaper.success") :
          IsStandardSuccess(log[i].ret, log[i].args.data, log[i].args.response)
    /\ \A i \in Invocations("shaper.error") :
          IsStandardError(log[i].ret, log[i].args.ctx)

\* C13 as stated: a client created without a responseFormat has a shaper
\* with the three operations success, error and redirect.
C13_DefaultShaperHasThree ==
    config.responseFormat = "default" =>
        /\ ShaperOperations(config) = {"success", "error", "redirect"}
        /\ StandardShapes

\* C13, amended: a client created without a responseFormat has a shaper
\* with the two operations success (ok = true with data, status, headers,
\* raw) and error (ok = false with status, message, parsed body, raw) and no
\* redirect operation; a 3xx response is shaped by the error operation and no
\* redirect shape is ever produced.
C13_DefaultShaperHasTwo ==
    config.responseFormat = "default" =>
        /\ ShaperOperations(config) = {"success", "error"}
        /\ StandardShapes
        /\ Invocations("shaper.redirect") = {}
        /\ (Done /\ result.kind = "returned" /\ call.safe /\ Invocations("onError") = {}) =>
              /\ "redirected" \notin DOMAIN result.value
              /\ \/ IsStandardSuccess(result.value, DataOf, res)
                 \/ IsStandardError(result.value, ErrorContext(res, parsed, ctx))

C13_Witness ==
    /\ config.responseFormat = "default"
    /\ Done /\ call.safe
    /\ res # None /\ res.status = 300 /\ IsRedirect(res)
    /\ result.kind = "returned"
    /\ Invocations("shaper.error") # {}
    /\ IsStandardError(result.value, ErrorContext(res, parsed, ctx))

-----------------------------------------------------------------------------
(* The error handler.                                                      *)

\* the current call is in handleError, past the await of the global hook
PastGlobalHook == pc \in {"onError", "done"} /\ shaped # None

\* C14: in a call that reaches the error handler only the global error hook
\* of the environment is invoked, at most once: server-side handleServerError
\* with the shaped error and the RequestContext of the call, client-side
\* handleClientError with the shaped error alone; and it is invoked once when
\* it is configured.
C14_OneGlobalHook ==
    /\ \A i \in Invocations("handleServerError") :
          /\ isServerEnv /\ ctx.isServer
          /\ log[i].args = [error |-> shaped, ctx |-> ctx]
    /\ \A i \in Invocations("handleClientError") :
          /\ ~isServerEnv /\ ~ctx.isServer
          /\ log[i].args = [error |-> shaped]
    /\ Cardinality(Invocations("handleServerError") \cup Invocations("handleClientError")) <= 1
    /\ PastGlobalHook =>
          /\ Cardinality(Invocations("handleServerError"))
                = (IF isServerEnv /\ config.handleServerError THEN 1 ELSE 0)
          /\ Cardinality(Invocations("handleClientError"))
                = (IF ~isServerEnv /\ config.handleClientError THEN 1 ELSE 0)

C14_Witness ==
    /\ Done
    /\ ~isServerEnv
    /\ config.handleClientError /\ config.handleServerError
    /\ Cardinality(Invocations("handleClientError")) = 1
    /\ Invocations("handleServerError") = {}
    /\ res.status = 400

GlobalHookInvocations ==
    Invocations("handleServerError") \cup Invocations("handleClientError")

\* the global error hook of the environment is configured
GlobalHookConfigured ==
    IF isServerEnv THEN config.handleServerError ELSE config.handleClientError

\* C15: in the error handler the shaper's error operation comes first, then
\* the global error hook of the environment, then the per-call onError; the
\* configured global hook has run in every call that gets as far as onError
\* or settles in the handler, in safe mode as in throwing mode and whether or
\* not onError supplies an override.
C15_ErrorHandlerOrder ==
    /\ \A i \in GlobalHookInvocations :
          \E j \in Invocations("shaper.error") : j < i
    /\ \A i \in Invocations("onError") :
          /\ \E j \in Invocations("shaper.error") : j < i
          /\ \A j \in GlobalHookInvocations : j < i
          /\ GlobalHookConfigured => GlobalHookInvocations # {}
    /\ (PastGlobalHook /\ GlobalHookConfigured) => GlobalHookInvocations # {}
    /\ PastGlobalHook => Cardinality(Invocations("shaper.error")) = 1

C15_Witness ==
    /\ Done /\ call.safe
    /\ GlobalHookConfigured
    /\ \E i \in Invocations("onError") :
          /\ log[i].ret = Obj("{\"fallback\":\"value\"}")
          /\ result = Returned(log[i].ret)
          /\ \E j \in GlobalHookInvocations : j < i

\* the response of the current call has a status in 200..299
TwoHundreds == res # None /\ res.status >= 200 /\ res.status <= 299

\* C16: the shaper's error operation is invoked only for a response whose
\* status is outside 200..299, at most once per call and exactly once in a
\* call that enters the error handler, with the ErrorContext of that response
\* (status, statusText, message "HTTP <status>: <statusText>", parsed body,
\* raw, url, method); in a call with a 2xx response neither it nor a global
\* error hook nor onError is invoked.
C16_ErrorHandlerOnlyForNon2xx ==
    /\ \A i \in Invocations("shaper.error") :
          /\ ~TwoHundreds
          /\ log[i].args.ctx =
                [status |-> res.status,
                 statusText |-> res.statusText,
                 message |-> "HTTP " \o ToString(res.status) \o ": " \o res.statusText,
                 parsedBody |-> parsed,
                 raw |-> res,
                 url |-> fetchCalls[1].url,
                 method |-> call.method]
    /\ Cardinality(Invocations("shaper.error")) <= 1
    /\ (res # None /\ ~TwoHundreds /\ parsed # None /\ pc \in {"onError", "done"})
          => Cardinality(Invocations("shaper.error")) = 1
    /\ TwoHundreds =>
          /\ Invocations("shaper.error") = {}
          /\ GlobalHookInvocations = {}
          /\ Invocations("onError") = {}
          /\ shaped = None

C16_Witness ==
    /\ Done
    /\ res # None /\ res.status = 399 /\ ~IsRedirect(res)
    /\ \E i \in Invocations("shaper.error") :
          log[i].args.ctx.message = "HTTP 399: " /\ log[i].args.ctx.parsedBody = Str("")

-----------------------------------------------------------------------------
(* The redirect handler.                                                   *)

RedirectHooks == {"onRedirect", "onRedirectSideEffect", "serverRedirectHandler"}

\* the place of a redirect hook in the order of handleRedirect
Rank(name) ==
    CASE name = "onRedirect" -> 1
      [] name = "onRedirectSideEffect" -> 2
      [] name = "serverRedirectHandler" -> 3

RedirectInvocations == {i \in 1..Len(log) : log[i].hook \in RedirectHooks}

\* the response of the current call has a status in [300, 400) and a location
\* header with a value
RedirectResponse ==
    /\ res # None /\ res.status >= 300 /\ res.status < 400
    /\ "location" \in DOMAIN res.headers /\ res.headers["location"] # ""

\* the redirect hooks invoked so far have all returned
RedirectHooksReturned == \A i \in RedirectInvocations : log[i].how = "returns"

\* C17: for a response with a status in [300, 400) and a location the
\* redirect hooks are invoked in the order onRedirect (if supplied),
\* onRedirectSideEffect (if configured), serverRedirectHandler (server-side,
\* if configured), each at most once, each with the same RedirectContext, and
\* each only after the one before it has returned.
C17_RedirectHookOrder ==
    /\ \A i \in RedirectInvocations :
          /\ RedirectResponse
          /\ log[i].args = [rctx |-> [location |-> res.headers["location"],
                                      status |-> res.status, ctx |-> ctx]]
          /\ \A j \in RedirectInvocations :
                i < j => /\ Rank(log[i].hook) < Rank(log[j].hook)
                         /\ log[i].how = "returns"
    /\ Invocations("onRedirect") # {} => call.options.onRedirect
    /\ Invocations("onRedirectSideEffect") # {} => config.onRedirectSideEffect
    /\ Invocations("serverRedirectHandler") # {} =>
          isServerEnv /\ config.serverRedirectHandler
    /\ (RedirectResponse /\ RedirectHooksReturned) =>
          /\ (call.options.onRedirect /\ pc \notin {"redirect"})
                => Invocations("onRedirect") # {}
          /\ (config.onRedirectSideEffect /\ pc \notin {"redirect", "sideEffect"})
                => Invocations("onRedirectSideEffect") # {}
          /\ (isServerEnv /\ config.serverRedirectHandler
                /\ pc \notin {"redirect", "sideEffect", "authoritative"})
                => Invocations("serverRedirectHandler") # {}

C17_Witness ==
    /\ RedirectResponse
    /\ Len(log) = 3
    /\ log[1].hook = "onRedirect" /\ log[1].how = "returns"
    /\ log[2].hook = "onRedirectSideEffect" /\ log[2].how = "returns"
    /\ log[3].hook = "serverRedirectHandler"
    /\ log[1].args = log[3].args

\* the current call raised the termination error of handleRedirect
TerminationRaised ==
    /\ result.kind = "raised"
    /\ result.error.name = "Error"
    /\ StartsWithNoCase(result.error.message, "serverredirecthandler did not terminate")

\* C18: for a response whose status is outside [300, 400), or inside it
\* without a location header, no redirect hook is invoked and no termination
\* error is raised, server-side or client-side.
C18_NotARedirect ==
    (/\ res # None
     /\ \/ res.status < 300
        \/ res.status >= 400
        \/ "location" \notin DOMAIN res.headers)
    => /\ RedirectInvocations = {}
       /\ ~TerminationRaised
       /\ pc \notin {"sideEffect", "authoritative", "unterminated"}

C18_Witness ==
    /\ Done
    /\ isServerEnv /\ config.serverRedirectHandler /\ config.onRedirectSideEffect
    /\ call.options.onRedirect
    /\ res # None /\ res.status = 399 /\ "location" \notin DOMAIN res.headers
    /\ RedirectInvocations = {}
    /\ result.kind = "raised" /\ ~TerminationRaised

\* C19: the authoritative redirect handler is invoked, and the termination
\* error raised, only in a server-side call whose dispatch used the redirect
\* mode "manual"; client-side neither happens, whatever is configured and
\* whatever the response.
C19_AuthoritativeOnlyServerManual ==
    /\ (\/ Invocations("serverRedirectHandler") # {}
        \/ pc = "unterminated"
        \/ TerminationRaised)
       => /\ isServerEnv /\ ctx.isServer
          /\ Len(fetchCalls) = 1
          /\ fetchCalls[1].init.redirect = "manual"
    /\ ~isServerEnv =>
          /\ Invocations("serverRedirectHandler") = {}
          /\ ~TerminationRaised
          /\ \A i \in 1..Len(fetchCalls) : fetchCalls[i].init.redirect = "follow"

C19_Witness ==
    /\ Done
    /\ ~isServerEnv /\ config.serverRedirectHandler
    /\ RedirectResponse
    /\ fetchCalls[1].init.redirect = "follow"
    /\ Invocations("serverRedirectHandler") = {}
    /\ result.kind = "returned"

ObserverInvocations ==
    Invocations("onRedirect") \cup Invocations("onRedirectSideEffect")

\* C20: what the observational redirect hooks onRedirect and
\* onRedirectSideEffect do (return, raise, never complete) does not change the
\* outcome of the call.  A call in which such a hook returns never hangs at
\* that hook and never raises the error of that hook, so the same must be
\* true of a call in which it raises or never completes.
C20_ObserversDoNotInfluence ==
    \A i \in ObserverInvocations :
        log[i].how # "returns" =>
            /\ ~(pc = "hung" /\ i = Len(log))
            /\ ~(result.kind = "raised" /\ result.error = ThrownBy(log[i].hook))

-----------------------------------------------------------------------------
(* Failures that are not HTTP errors.                                      *)

\* the current call dispatched and settled without a response
TransportFailed == Done /\ Len(fetchCalls) = 1 /\ res = None

\* C21: when the transport rejects, the call raises the rejection of the
\* transport as it is, in throwing and in safe mode, and no redirect hook,
\* error hook, onError callback, shaper operation or schema validator has
\* been invoked.
C21_TransportFailurePropagates ==
    TransportFailed =>
        /\ result = [kind |-> "raised",
                     error |-> [name |-> "TypeError", message |-> "fetch failed"]]
        /\ log = <<>>
        /\ parsed = None
        /\ shaped = None

C21_Witness ==
    /\ TransportFailed
    /\ call.safe
    /\ config.handleServerError /\ call.options.onError /\ call.options.schema
    /\ result.kind = "raised"

\* C22: when the schema validator raises on a 2xx response the call raises
\* that error as it is, in throwing and in safe mode; no shaper operation,
\* global error hook or onError callback is invoked.
C22_SchemaFailurePropagates ==
    \A i \in Invocations("schema.parse") :
        /\ TwoHundreds
        /\ log[i].how = "throws" =>
              /\ Done
              /\ result = [kind |-> "raised",
                           error |-> [name |-> "Error", message |-> "thrown by schema.parse"]]
              /\ Invocations("shaper.success") = {}
              /\ Invocations("shaper.error") = {}
              /\ GlobalHookInvocations = {}
              /\ Invocations("onError") = {}
              /\ shaped = None

C22_Witness ==
    /\ Done /\ call.safe
    /\ config.handleServerError /\ config.handleClientError /\ call.options.onError
    /\ \E i \in Invocations("schema.parse") : log[i].how = "throws"
    /\ result.kind = "raised"

-----------------------------------------------------------------------------
(* The configuration of the client over its calls.                         *)

\* the lower-cased names of a headers source
NamesOf(init) == {ToLower(init[i][1]) : i \in 1..Len(init)}

\* every header dispatched by the current call comes from the client-global
\* headers, from the headers of this call, or is the content-type defaulted
\* for the body of this call
HeadersFromOwnSources ==
    \A i \in 1..Len(fetchCalls) :
        DOMAIN fetchCalls[i].init.headers \subseteq
            NamesOf(config.headers) \cup NamesOf(call.options.headers)
                \cup (IF Truthy(call.options.body) THEN {"content-type"} ELSE {})

\* C23: no step of any call changes the configuration of the client, and
\* the headers a call dispatches are those of the client-global headers and of
\* that call alone: nothing defaulted for or supplied by an earlier call
\* appears in them.
C23_ConfigUnchanged ==
    [][config' = config]_vars /\ []HeadersFromOwnSources

C23_Witness ==
    /\ pc = "fetch"
    /\ {"content-type", "x-trace"} \subseteq earlier
    /\ config.headers = <<>>
    /\ fetchCalls[1].init.headers = EmptyHeaders

-----------------------------------------------------------------------------
(* Calls in flight together.                                               *)

\* the place of each collaborator in the order of one run of execute
StepRank(name) ==
    CASE name \in RedirectHooks -> Rank(name)
      [] name = "shaper.error" -> 4
      [] name \in {"handleServerError", "handleClientError"} -> 5
      [] name = "onError" -> 6
      [] name = "schema.parse" -> 7
      [] name = "shaper.success" -> 8

\* what an invocation with these locals dispatched, were it the only one
DispatchAlone(x) ==
    [url |-> buildUrl(config.baseUrl, x.call.path, x.call.options.params),
     init |-> FetchInit(config, isServerEnv, x.call)]

\* the outcome of a run of execute on its own, for the call c, the response
\* r the transport gave it (None: it rejected) and what its collaborators
\* did, as recorded in lg
OutcomeAlone(c, r, lg) ==
    LET rc == RequestContext(config, isServerEnv, c)
        body == parseResponse(r)
        sh == ShaperError(config, ErrorContext(r, body, rc))
        thrown == {i \in 1..Len(lg) : lg[i].how = "throws"}
        overrides == {i \in 1..Len(lg) : lg[i].hook = "onError"}
        override == IF overrides = {} THEN Undefined
                    ELSE lg[CHOOSE i \in overrides : TRUE].ret
        data == IF c.options.schema THEN SchemaParse(body) ELSE body
    IN IF r = None THEN Raised(TransportError)
       ELSE IF thrown # {} THEN Raised(ThrownBy(lg[CHOOSE i \in thrown : TRUE].hook))
       ELSE IF IsRedirect(r) /\ Authoritative(config, rc)
       THEN Raised(TerminationError(HeadersGet(r.headers, "location").v))
       ELSE IF ~ResponseOk(r) THEN ErrorOutcome(c.safe, override, sh)
       ELSE SuccessOutcome(config, c.safe, data, r)

\* the locals x are those of a run on its own with the same call, the same
\* response and the same behaviour of the collaborators
RunsAsAlone(x) ==
    IF x.pc = "idle" THEN x = LocalsIdle
    ELSE IF RequiresBaseUrl(config.baseUrl, x.call.path)
    THEN x = [LocalsIdle EXCEPT !.pc = "done", !.call = x.call,
                                !.result = Raised(UrlError(x.call.path))]
    ELSE IF NewUrlThrows(config.baseUrl, x.call.path)
    THEN x = [LocalsIdle EXCEPT !.pc = "done", !.call = x.call,
                                !.result = Raised(InvalidUrlError)]
    ELSE LET given == IF "response" \in DOMAIN x.fetchCalls[1]
                      THEN x.fetchCalls[1].response ELSE None
             rc == RequestContext(config, isServerEnv, x.call)
         IN /\ Len(x.fetchCalls) = 1
            /\ [url |-> x.fetchCalls[1].url, init |-> x.fetchCalls[1].init] = DispatchAlone(x)
            /\ x.ctx = rc
            /\ x.res = given
            /\ x.parsed # None => x.parsed = parseResponse(given)
            /\ x.shaped # None =>
                  x.shaped = ShaperError(config, ErrorContext(given, x.parsed, rc))
            /\ \A i \in 1..Len(x.log) :
                  /\ \A j \in 1..Len(x.log) :
                        i < j => /\ StepRank(x.log[i].hook) < StepRank(x.log[j].hook)
                                 /\ x.log[i].how = "returns"
                  /\ x.log[i].hook \in RedirectHooks =>
                        x.log[i].args = [rctx |-> RedirectContext(given, rc)]
                  /\ x.log[i].hook \in {"handleClientError", "onError"} =>
                        x.log[i].args = [error |-> x.shaped]
                  /\ x.log[i].hook = "handleServerError" =>
                        x.log[i].args = [error |-> x.shaped, ctx |-> rc]
            /\ x.pc = "done" => x.result = OutcomeAlone(x.call, given, x.log)
            /\ x.pc # "done" => x.result = Pending
            /\ (x.pc = "done" /\ x.result.kind = "returned" /\ given # None
                  /\ ~ResponseOk(given)) => x.shaped # None

\* C24: with two calls in flight on one client, interleaved in any way at
\* their awaits, the dispatched request, the hook invocations and the outcome
\* of each are those of that call running on its own with the same inputs, the
\* same response and the same behaviour of its hooks.
C24_CallsIndependent ==
    RunsAsAlone(Current) /\ RunsAsAlone(suspended)

C24_Witness ==
    /\ pc = "done" /\ suspended.pc = "done"
    /\ call # suspended.call
    /\ res # None /\ suspended.res # None
    /\ res.status = 400 /\ suspended.res.status = 300
    /\ Len(log) > 1 /\ Len(suspended.log) > 1
    /\ result.kind = "returned" /\ suspended.result.kind = "raised"

-----------------------------------------------------------------------------
(* Redirects that are only observed.                                       *)

\* the current call got a 3xx response with a location, no authoritative
\* handler applies, and the call has settled without a hook raising
ObservedRedirectDone ==
    /\ Done
    /\ RedirectResponse
    /\ ~(isServerEnv /\ config.serverRedirectHandler)
    /\ ~SomeHookThrew

\* the configured redirect observers and the global error hook have fired,
\* and the error operation of the shaper has shaped the 3xx response
ObserversAndErrorHookFired ==
    /\ call.options.onRedirect => Invocations("onRedirect") # {}
    /\ config.onRedirectSideEffect => Invocations("onRedirectSideEffect") # {}
    /\ GlobalHookConfigured => GlobalHookInvocations # {}
    /\ \A i \in GlobalHookInvocations : \A j \in ObserverInvocations : j < i
    /\ Cardinality(Invocations("shaper.error")) = 1
    /\ shaped = ExpectedShape
    /\ shaped.status = res.status

-----------------------------------------------------------------------------
(* Redirects handled by the authoritative handler.                         *)

\* C26: once the authoritative redirect handler has been invoked the call
\* takes no later step of the pipeline: the body is not parsed, no shaper
\* operation, global error hook, onError callback or schema validator is
\* invoked, and the call settles only by raising, the error of the handler
\* when it raised and the termination error when it returned.
C26_AuthoritativeEndsTheCall ==
    \A i \in Invocations("serverRedirectHandler") :
        /\ i = Len(log)
        /\ parsed = None
        /\ shaped = None
        /\ \A j \in 1..Len(log) : log[j].hook \in RedirectHooks
        /\ pc \in {"unterminated", "hung", "done"}
        /\ pc = "unterminated" <=> (log[i].how = "returns" /\ result = Pending)
        /\ pc = "hung" <=> log[i].how = "hangs"
        /\ Done =>
              result = Raised(IF log[i].how = "throws"
                              THEN [name |-> "Error",
                                    message |-> "thrown by serverRedirectHandler"]
                              ELSE [name |-> "Error",
                                    message |-> "serverRedirectHandler did not terminate for redirect to "
                                                    \o res.headers["location"]])

C26_Witness ==
    /\ Done
    /\ call.safe
    /\ \E i \in Invocations("serverRedirectHandler") : log[i].how = "throws"
    /\ Len(log) = 3
    /\ result.kind = "raised"
    /\ parsed = None

-----------------------------------------------------------------------------
(* Termination.                                                            *)

\* the call has exactly one of the terminal outcomes
OneOutcome ==
    \/ result.kind = "returned" /\ DOMAIN result = {"kind", "value"}
    \/ result.kind = "raised" /\ DOMAIN result = {"kind", "error"}

\* no step of the pipeline has run twice in the current call
NoStepRepeated ==
    /\ Len(fetchCalls) <= 1
    /\ \A i \in 1..Len(log) : \A j \in 1..Len(log) :
          i < j => StepRank(log[i].hook) < StepRank(log[j].hook)

\* C27: a call whose transport, body read, hooks, callbacks and validator all
\* complete eventually settles, with exactly one outcome (a returned value or
\* a single raised error) that does not change afterwards; there is one
\* dispatch at most and no step of the pipeline runs twice.
C27_EveryCallTerminates ==
    /\ (pc = "fetch") ~> (Done \/ SomeHookHung)
    /\ [](NoStepRepeated /\ (Done <=> result # Pending) /\ (Done => OneOutcome))
    /\ [][pc = "done" => (pc' = "idle" \/ (pc' = "done" /\ result' = result))]_vars

C27_Witness ==
    /\ Done
    /\ OneOutcome
    /\ Len(fetchCalls) = 1
    /\ Len(log) = 4
    /\ result.kind = "returned"

-----------------------------------------------------------------------------
(* The lazy proxy.                                                         *)

\* C28: however the calls through the proxy and the calls of initApi are
\* interleaved, createFetchClient makes at most one client, every call through
\* the proxy is forwarded to it, and once it exists no call of initApi
\* replaces it or changes the config it was made from.
C28_OneLazyInstance ==
    /\ [](/\ Len(lazy.instances) <= 1
          /\ lazy.apiInstance = Len(lazy.instances)
          /\ \A f \in lazy.forwarded : f[2] = 1
          /\ \A p \in ProxyCallers :
                lazy.callers[p].pc = "awaiting" => lazy.callers[p].client = 1
          /\ lazy.instances # <<>> => lazy.instances[1] = lazy.initCalls[1])
    /\ [][lazy.apiInstance # 0 =>
            /\ lazy'.apiInstance = lazy.apiInstance
            /\ lazy'.instances = lazy.instances]_vars

C28_Witness ==
    /\ lazy.instances = <<"{}">>
    /\ Len(lazy.initCalls) >= 3
    /\ lazy.initCalls[3] = "{baseUrl}"
    /\ <<1, 1>> \in lazy.forwarded
    /\ lazy.callers[1].calls = 1 /\ lazy.callers[2].calls = 1
    /\ lazy.callers[2].pc = "awaiting"

====
